---------------------------- MODULE Spec2Model ----------------------------
(***************************************************************************)
(* A model of wavgen (src/wavgen.c, lines 1-954): one run of main, from    *)
(* reading config.cfg to the last write to the output file.                *)
(*                                                                         *)
(* Number representation.  TLC has 32-bit integers and no reals, so:       *)
(*   - a tone frequency (C double) is a whole number of 1/FreqDen Hz;      *)
(*   - durationSecs, maxSamples, baseSampleCount and sampleCount (C        *)
(*     doubles) are exact rationals <<num, den>> in lowest terms;          *)
(*   - a sample of the chunk (C double) is a fixed-point integer counting  *)
(*     1/Unit; an operation on samples computes the exact result and       *)
(*     rounds it once to that grid;                                        *)
(*   - the dither term (rand() - rand()) * amp is far below 1/Unit, so it  *)
(*     is carried beside the sample, in `noise`, as the multiple of        *)
(*     RAND_MAX * amp = 1/2^(bits-1) that it is;                           *)
(*   - the product src[i] * maxInt is computed exactly and then rounded to *)
(*     the 53 significant bits of a double; lround and the casts after it  *)
(*     are exact.  Naturals of any size are little-endian sequences of     *)
(*     base-256 digits, which are also the bytes the encoder stores.       *)
(***************************************************************************)
EXTENDS Integers, Sequences, FiniteSets, TLC

---------------------------------------------------------------------------
(* Integer helpers *)

Abs(x) == IF x < 0 THEN -x ELSE x

Sgn(x) == IF x < 0 THEN -1 ELSE IF x > 0 THEN 1 ELSE 0

RECURSIVE GCD(_, _)
GCD(a, b) == IF b = 0 THEN a ELSE GCD(b, a % b)

\* a / b rounded to the nearest integer, halves away from zero (b > 0)
RoundDiv(a, b) == Sgn(a) * ((2 * Abs(a) + b) \div (2 * b))

RECURSIVE Pow2(_)
Pow2(n) == IF n = 0 THEN 1 ELSE 2 * Pow2(n - 1)

---------------------------------------------------------------------------
(* Exact rationals <<num, den>>, den > 0, in lowest terms: the C doubles   *)
(* of the period sizer                                                     *)

Rat(n, d) ==
    LET g == GCD(Abs(n), Abs(d))
        s == IF d < 0 THEN -1 ELSE 1
    IN  <<s * (n \div g), s * (d \div g)>>

RAdd(a, b) ==
    LET g == GCD(a[2], b[2])
    IN  Rat(a[1] * (b[2] \div g) + b[1] * (a[2] \div g), (a[2] \div g) * b[2])

RMul(a, b) ==
    LET g1 == GCD(Abs(a[1]), b[2])
        g2 == GCD(Abs(b[1]), a[2])
    IN  Rat((a[1] \div g1) * (b[1] \div g2), (a[2] \div g2) * (b[2] \div g1))

RLess(a, b) == a[1] * b[2] < b[1] * a[2]

\* (size_t)x for a double x >= 0: the fraction is dropped
Trunc(a) == a[1] \div a[2]

\* x == (size_t)x
IsIntegral(a) == a[2] = 1

---------------------------------------------------------------------------
(* Naturals of any size: little-endian sequences of base-256 digits (high  *)
(* zero digits allowed), and integers as a sign and such a magnitude       *)

RECURSIVE BigOfNat(_)
BigOfNat(n) == IF n = 0 THEN <<>> ELSE <<n % 256>> \o BigOfNat(n \div 256)

Zeros(k) == [i \in 1..k |-> 0]

Digit(a, i) == IF i <= Len(a) THEN a[i] ELSE 0

RECURSIVE BigIsZero(_)
BigIsZero(a) == a = <<>> \/ (Head(a) = 0 /\ BigIsZero(Tail(a)))

RECURSIVE BigAddC(_, _, _)
BigAddC(a, b, c) ==
    IF a = <<>> /\ b = <<>>
    THEN (IF c = 0 THEN <<>> ELSE <<c>>)
    ELSE LET x == Digit(a, 1) + Digit(b, 1) + c
         IN  <<x % 256>> \o BigAddC(IF a = <<>> THEN a ELSE Tail(a),
                                    IF b = <<>> THEN b ELSE Tail(b),
                                    x \div 256)

BigAdd(a, b) == BigAddC(a, b, 0)

\* a - b for a >= b
RECURSIVE BigSubB(_, _, _)
BigSubB(a, b, w) ==
    IF a = <<>> THEN <<>>
    ELSE LET x == Head(a) - Digit(b, 1) - w
         IN  <<(x + 256) % 256>> \o BigSubB(Tail(a),
                                            IF b = <<>> THEN b ELSE Tail(b),
                                            IF x < 0 THEN 1 ELSE 0)

BigSub(a, b) == BigSubB(a, b, 0)

\* -1, 0, 1 as a < b, a = b, a > b
RECURSIVE BigCmp(_, _)
BigCmp(a, b) ==
    IF a = <<>> /\ b = <<>> THEN 0
    ELSE LET t == BigCmp(IF a = <<>> THEN a ELSE Tail(a),
                         IF b = <<>> THEN b ELSE Tail(b))
         IN  IF t # 0 THEN t ELSE Sgn(Digit(a, 1) - Digit(b, 1))

\* a * m + c for a small natural m
RECURSIVE BigMulSmall(_, _, _)
BigMulSmall(a, m, c) ==
    IF a = <<>> THEN BigOfNat(c)
    ELSE LET x == Head(a) * m + c
         IN  <<x % 256>> \o BigMulSmall(Tail(a), m, x \div 256)

RECURSIVE BigMul(_, _)
BigMul(a, b) ==
    IF a = <<>> THEN <<>>
    ELSE BigAdd(BigMulSmall(b, Head(a), 0), <<0>> \o BigMul(Tail(a), b))

\* a * 256^k and a \div 256^k
BigShl(a, k) == Zeros(k) \o a
BigShr(a, k) == SubSeq(a, k + 1, Len(a))

\* the low k digits of a
BigLow(a, k) == [i \in 1..k |-> Digit(a, i)]

SInt(n) == [neg |-> n < 0, mag |-> BigOfNat(Abs(n))]

SAdd(x, y) ==
    IF x.neg = y.neg THEN [neg |-> x.neg, mag |-> BigAdd(x.mag, y.mag)]
    ELSE IF BigCmp(x.mag, y.mag) >= 0
         THEN [neg |-> x.neg, mag |-> BigSub(x.mag, y.mag)]
         ELSE [neg |-> y.neg, mag |-> BigSub(y.mag, x.mag)]

SNeg(x) == [neg |-> ~x.neg, mag |-> x.mag]

SEq(x, y) ==
    /\ BigCmp(x.mag, y.mag) = 0
    /\ (x.neg = y.neg \/ BigIsZero(x.mag))

\* -1, 0, 1 as x < y, x = y, x > y
SCmp(x, y) ==
    LET d == SAdd(x, SNeg(y))
    IN  IF BigIsZero(d.mag) THEN 0 ELSE IF d.neg THEN -1 ELSE 1

\* the k bytes of x in two's complement, least significant first
TwosComplement(x, k) ==
    IF x.neg /\ ~BigIsZero(x.mag)
    THEN BigLow(BigAdd([i \in 1..k |-> 255 - Digit(x.mag, i)], <<1>>), k)
    ELSE BigLow(x.mag, k)

\* the integer that k bytes, least significant first, hold in two's complement
FromTwosComplement(b, k) ==
    IF b[k] >= 128
    THEN [neg |-> TRUE,
          mag |-> BigLow(BigAdd([i \in 1..k |-> 255 - b[i]], <<1>>), k)]
    ELSE [neg |-> FALSE, mag |-> b]

Reverse(s) == [i \in 1..Len(s) |-> s[Len(s) + 1 - i]]

RECURSIVE Flatten(_)
Flatten(ss) == IF ss = <<>> THEN <<>> ELSE Head(ss) \o Flatten(Tail(ss))

\* <<a \div m, a % m>> for a small positive m, a most significant digit first
RECURSIVE BigDivBE(_, _, _)
BigDivBE(be, m, rem) ==
    IF be = <<>> THEN <<(<<>>), rem>>
    ELSE LET x == rem * 256 + Head(be)
             r == BigDivBE(Tail(be), m, x % m)
         IN  << <<x \div m>> \o r[1], r[2] >>

BigDivSmall(a, m) ==
    LET r == BigDivBE(Reverse(a), m, 0) IN <<Reverse(r[1]), r[2]>>

\* the number of binary digits of a natural
RECURSIVE BitLen(_)
BitLen(n) == IF n = 0 THEN 0 ELSE 1 + BitLen(n \div 2)

RECURSIVE BigBitLen(_)
BigBitLen(a) ==
    IF a = <<>> THEN 0
    ELSE IF a[Len(a)] = 0 THEN BigBitLen(SubSeq(a, 1, Len(a) - 1))
    ELSE 8 * (Len(a) - 1) + BitLen(a[Len(a)])

\* a natural rounded to the nearest one with 53 significant binary digits,
\* ties to even: what a double keeps of it
BigRound53(a) ==
    LET excess == BigBitLen(a) - 53
    IN  IF excess <= 0 THEN a
        ELSE LET m  == Pow2(excess)
                 qr == BigDivSmall(a, m)
                 up == \/ 2 * qr[2] > m
                       \/ (2 * qr[2] = m /\ Digit(qr[1], 1) % 2 = 1)
             IN  BigMulSmall(IF up THEN BigAdd(qr[1], <<1>>) ELSE qr[1], m, 0)

---------------------------------------------------------------------------
(* Program constants *)

WAVE_SINE == 0
WAVE_TRIANGLE == 1
WAVE_SQUARE == 2
WAVE_SAW == 3
WAVE_EVEN == 4

FMT_INT_PCM == 1
FMT_FLOAT_PCM == 3

LINE_COUNT == 9

MAX_AMP_DB == 6
MINUS_INF_DB == -150
EXIT_FAILURE == 1

\* errno values: 0 is "no error"; only their being non-zero is ever tested
ERANGE == 34
EINVAL == 22

\* one sample unit: the fixed-point grid of a chunk sample is 1/Unit
Unit == Pow2(8)

---------------------------------------------------------------------------
(* Bounds of the model *)

\* tone frequencies are read by strtod; the model resolves them to halves
\* of a Hz
FreqDen == 2

\* chunks longer than this are not synthesized (the run is cut off)
MaxLen == 13

\* runs that would write more whole chunks than this are not followed
MaxChunks == 6

---------------------------------------------------------------------------
(* config.cfg: nine lines, each `name = text ;`.  A line is modelled by    *)
(* whether it holds an '=' and by its text after the '=', and a text by    *)
(* what the parse functions read from it:                                  *)
(*   a number text is [k, n] or [k, q]: k = "num" (strtod/strtoul convert  *)
(*   it to n), "junk" (no conversion: the functions return 0 and leave     *)
(*   errno 0), "range" (out of range: errno = ERANGE);                     *)
(*   a tone list is the sequence of its tokens' values, 0 for a token that *)
(*   is not a positive number.                                             *)

Ln(txt) == [eq |-> TRUE, txt |-> txt]
NoEq(txt) == [eq |-> FALSE, txt |-> txt]

Num(n) == [k |-> "num", n |-> n]
Junk == [k |-> "junk", n |-> 0]
OutOfRange == [k |-> "range", n |-> 0]

NumQ(n, d) == [k |-> "num", q |-> Rat(n, d)]
JunkQ == [k |-> "junk", q |-> <<0, 1>>]
OutOfRangeQ == [k |-> "range", q |-> <<0, 1>>]

\* the tone of n / d Hz
Tone(n, d) == (n * FreqDen) \div d

ToneTexts ==
    { <<Tone(1, 1)>>, <<Tone(1, 1), Tone(2, 1)>>, <<Tone(2, 1), Tone(3, 1)>>,
      <<Tone(3, 1), 0, Tone(1, 1)>>, <<Tone(5, 1)>>, <<Tone(9, 2)>>,
      <<Tone(30000, 1)>>, <<Tone(50000, 1)>>, <<0>> }
WaveTexts == {"sine", "triangle", "square", "saw", "even", "noise"}
DurTexts == {NumQ(1, 2), NumQ(3, 8), NumQ(1, 1), NumQ(0, 1), JunkQ, OutOfRangeQ}
AmpTexts == {Num(-200), Num(-150), Num(-20), Num(-6), Num(0), Num(6), Num(10)}
RateTexts == {Num(4), Num(12)}
BitsTexts == {Num(8), Num(16), Num(24), Num(32), Num(64), Num(12)}
FmtTexts == {"int", "float", "pcm"}
BoolTexts == {"true", "false", "yes"}

Config(t, w, d, a, r, b, f, di) == <<t, w, d, a, r, b, f, di, Ln("out")>>

\* every line well-formed: the tones and the shape vary
SynthConfigs ==
    { Config(Ln(t), Ln(w), d, Ln(Num(0)), Ln(Num(12)), Ln(Num(16)),
             Ln("int"), Ln("false")) :
        t \in ToneTexts, w \in WaveTexts,
        d \in {Ln(NumQ(1, 2)), NoEq(JunkQ)} }

\* the period sizer's inputs vary
SizeConfigs ==
    { Config(Ln(t), Ln("sine"), d, Ln(Num(0)), Ln(r), Ln(Num(16)),
             Ln("int"), Ln(di)) :
        t \in ToneTexts, d \in {Ln(x) : x \in DurTexts} \cup {NoEq(JunkQ)},
        r \in RateTexts, di \in BoolTexts }

\* the normalizer's, the ditherer's and the encoder's inputs vary
EncodeConfigs ==
    { Config(Ln(<<Tone(1, 1)>>), Ln("sine"), Ln(NumQ(1, 2)), Ln(a), Ln(r),
             Ln(b), Ln(f), Ln(di)) :
        a \in AmpTexts, r \in RateTexts, b \in BitsTexts, f \in FmtTexts,
        di \in {"true", "false"} }

\* lines without '=' and texts the parse functions refuse
ParseConfigs ==
    { Config(t, w, Ln(NumQ(1, 2)), a, r, b, f, di) :
        t \in {Ln(<<Tone(1, 1)>>), NoEq(<<Tone(1, 1)>>)},
        w \in {Ln("square"), NoEq("square")},
        a \in {Ln(Num(0)), Ln(OutOfRange)},
        r \in {Ln(Num(12)), NoEq(Num(12)), Ln(Junk), Ln(Num(1760))},
        b \in {Ln(Num(16)), NoEq(Num(16)), Ln(OutOfRange), Ln(Num(12))},
        f \in {Ln("int"), NoEq("int"), Ln("float")},
        di \in {Ln("false"), NoEq("false")} }

\* <<>> stands for a config.cfg that cannot be opened
NoFile == <<>>

Configs == SynthConfigs \cup SizeConfigs \cup EncodeConfigs \cup ParseConfigs
               \cup {NoFile}

---------------------------------------------------------------------------
(* State *)

VARIABLES
    pc,           \* where the run is
    cfg,          \* the content of config.cfg
    bigEndian,    \* what machineIsBigEndian() returns on this host
    line,         \* parametersParse: the index i of its line loop
    errno,        \* the C library's errno
    params,       \* the Parameters value
    sampleCount,  \* waveChunkGenerate: double sampleCount
    chunk,        \* the WaveChunk storage: calloc'ed doubles
    tone,         \* waveChunkGenerate: number of tones already added
    partials,     \* history: the <<freq, factor>> of every partial synthesized
    chunkNaN,     \* the division by absPeak left NaN in every sample
    oob,          \* history: an element past the end of the chunk was accessed
    rawPeak,      \* history: the absolute peak of the chunk before the division
    noise,        \* what applyDither added to each sample, in 1/2^(bits-1)
    dithered,     \* history: applyDither was called
    randDraws,    \* history: the number of calls of rand()
    out,          \* the bytes of AudioBuffer.buf, in memory order
    abuf,         \* the other fields of the AudioBuffer: counts of samples, bytes
    fatal,        \* the cause of the ERR_FATAL message logged, "" for none
    exitCode,     \* the status the process ended with, -1 while it runs
    file,         \* the output file: opened for appending, the fwrites, the
                  \* sizes its header declares, and (history) the number of
                  \* calls made on a NULL FILE pointer
    seeds,        \* history: the number of calls of srand()
    heap          \* the two sample buffers: none, live or freed; the faults

vars == <<pc, cfg, bigEndian, line, errno, params, sampleCount, chunk, tone,
          partials, chunkNaN, oob, rawPeak, noise, dithered, randDraws,
          out, abuf, fatal, exitCode, file, seeds, heap>>

\* the variables only main and the failure paths write
mainVars == <<fatal, exitCode, file, seeds>>

\* the variables that stay as they are while the sample buffers are not
\* touched
restVars == <<mainVars, heap>>

\* the variables waveChunkGenerate never writes
encVars == <<noise, dithered, randDraws, out>>

\* the variables parametersParse never writes
pipeVars == <<sampleCount, chunk, tone, partials, chunkNaN, oob, rawPeak>>

---------------------------------------------------------------------------
(* parametersParse and its parse functions *)

DefaultParams ==
    [ freqs |-> <<Tone(440, 1)>>,
      waveType |-> WAVE_SINE,
      durationSecs |-> <<4, 1>>,
      amplitude |-> -1,
      sampleRate |-> 48000,
      bitsPerSample |-> 24,
      sampleFormat |-> FMT_INT_PCM,
      applyDither |-> TRUE ]

\* strtod under errno = 0: the value read and the errno left
parseDouble(txt) ==
    CASE txt.k = "num" -> [val |-> txt, err |-> 0]
      [] txt.k = "junk" -> [val |-> txt, err |-> 0]
      [] txt.k = "range" -> [val |-> txt, err |-> ERANGE]

\* the tokens that are positive numbers, in order; <<>> stands for NULL
parseFreqList(toks) == SelectSeq(toks, LAMBDA n : n > 0)

\* strtoul under errno = 0: a text without digits reads as 0, and errno
\* stays 0 there
parseUnsignedInt(txt) ==
    CASE txt.k = "num" -> [val |-> txt.n, err |-> 0]
      [] txt.k = "junk" -> [val |-> 0, err |-> 0]
      [] txt.k = "range" -> [val |-> 0, err |-> ERANGE]

parseWaveType(txt) ==
    CASE txt = "sine" -> WAVE_SINE
      [] txt = "triangle" -> WAVE_TRIANGLE
      [] txt = "square" -> WAVE_SQUARE
      [] txt = "saw" -> WAVE_SAW
      [] txt = "even" -> WAVE_EVEN
      [] OTHER -> -1

parseSampleFormat(txt) ==
    CASE txt = "int" -> FMT_INT_PCM
      [] txt = "float" -> FMT_FLOAT_PCM
      [] OTHER -> -1

\* errno is set on failure and left as it was on success
parseBool(txt, e) ==
    CASE txt = "true" -> [val |-> TRUE, err |-> e]
      [] txt = "false" -> [val |-> FALSE, err |-> e]
      [] OTHER -> [val |-> FALSE, err |-> EINVAL]

RECURSIVE SeqMax(_, _)
SeqMax(s, m) ==
    IF s = <<>> THEN m
    ELSE SeqMax(Tail(s), IF Head(s) > m THEN Head(s) ELSE m)

\* case LINE_SAMPLE_RATE, once errno == 0
SampleRateLine(p, sampleRate) ==
    LET highestFreq == SeqMax(p.freqs, 0)
        nyquistLimit == (highestFreq * 2) \div FreqDen
    IN  IF sampleRate <= nyquistLimit THEN p
        ELSE [p EXCEPT !.sampleRate = sampleRate]

\* case LINE_SAMPLE_FORMAT, once errno == 0
SampleFormatLine(p, sampleFormat) ==
    LET b == p.bitsPerSample
    IN  CASE sampleFormat = FMT_INT_PCM ->
                IF b # 8 /\ b # 16 /\ b # 24 /\ b # 32
                THEN [p EXCEPT !.bitsPerSample = 32]
                ELSE [p EXCEPT !.sampleFormat = sampleFormat]
          [] sampleFormat = FMT_FLOAT_PCM ->
                IF b # 32 /\ b # 64
                THEN [p EXCEPT !.bitsPerSample = 32]
                ELSE [p EXCEPT !.sampleFormat = sampleFormat]
          [] OTHER ->
                [p EXCEPT !.bitsPerSample = 24, !.sampleFormat = FMT_INT_PCM]

\* the switch (i) of the line loop, for a line that holds an '='
LineEffect(i, txt, p, e) ==
    CASE i = 0 ->
            LET freqs == parseFreqList(txt)
            IN  [ p |-> IF freqs # <<>> THEN [p EXCEPT !.freqs = freqs] ELSE p,
                  err |-> IF txt # <<>> THEN 0 ELSE e ]
      [] i = 1 ->
            LET waveType == parseWaveType(txt)
            IN  [ p |-> IF e = 0 THEN [p EXCEPT !.waveType = waveType] ELSE p,
                  err |-> e ]
      [] i = 2 ->
            LET r == parseDouble(txt)
            IN  [ p |-> IF r.err = 0
                        THEN [p EXCEPT !.durationSecs = r.val.q] ELSE p,
                  err |-> r.err ]
      [] i = 3 ->
            LET r == parseDouble(txt)
                amplitude == r.val.n
            IN  [ p |-> IF r.err = 0
                        THEN [p EXCEPT !.amplitude =
                                 IF amplitude < MAX_AMP_DB THEN amplitude
                                 ELSE MAX_AMP_DB]
                        ELSE p,
                  err |-> r.err ]
      [] i = 4 ->
            LET r == parseUnsignedInt(txt)
            IN  [ p |-> IF r.err = 0 THEN SampleRateLine(p, r.val) ELSE p,
                  err |-> r.err ]
      [] i = 5 ->
            LET r == parseUnsignedInt(txt)
            IN  [ p |-> IF r.err = 0
                        THEN [p EXCEPT !.bitsPerSample = r.val] ELSE p,
                  err |-> r.err ]
      [] i = 6 ->
            LET sampleFormat == parseSampleFormat(txt)
            IN  [ p |-> IF e = 0 THEN SampleFormatLine(p, sampleFormat) ELSE p,
                  err |-> e ]
      [] i = 7 ->
            LET r == parseBool(txt, e)
            IN  [ p |-> IF r.err = 0
                        THEN [p EXCEPT !.applyDither = r.val] ELSE p,
                  err |-> r.err ]
      [] OTHER -> [p |-> p, err |-> e]

\* the parse function called for line i logs ERR_PARSE for its text
LogsParseError(i, txt) ==
    CASE i = 1 -> parseWaveType(txt) = -1
      [] i \in {2, 3} -> parseDouble(txt).err # 0
      [] i \in {4, 5} -> txt.k # "num" \/ parseUnsignedInt(txt).val = 0
      [] i = 6 -> parseSampleFormat(txt) = -1
      [] i = 7 -> txt \notin {"true", "false"}
      [] OTHER -> FALSE

Init ==
    /\ pc = "parse"
    /\ cfg \in Configs
    /\ bigEndian \in BOOLEAN
    /\ line = 0
    /\ errno = 0
    /\ params = DefaultParams
    /\ sampleCount = <<0, 1>>
    /\ chunk = <<>>
    /\ tone = 0
    /\ partials = {}
    /\ chunkNaN = FALSE
    /\ oob = FALSE
    /\ rawPeak = 0
    /\ noise = <<>>
    /\ dithered = FALSE
    /\ randDraws = 0
    /\ out = <<>>
    /\ abuf = [sampleCount |-> 0, bytesPerSample |-> 0]
    /\ fatal = ""
    /\ exitCode = -1
    /\ file = [ opened |-> FALSE, writes |-> <<>>, nullOps |-> 0,
                header |-> [ blockAlign |-> 0, byteRate |-> 0,
                             subChunk2Size |-> 0, chunkSize |-> 0 ] ]
    /\ seeds = 0
    /\ heap = [src |-> "none", dst |-> "none", faults |-> {}]

\* fopen("config.cfg") fails: the defaults are returned
ParseNoFile ==
    /\ pc = "parse"
    /\ cfg = NoFile
    /\ pc' = "size"
    /\ UNCHANGED <<encVars, cfg, bigEndian, line, errno, params, pipeVars,
                   abuf, restVars>>

\* one turn of the line loop
ParseLine ==
    /\ pc = "parse"
    /\ cfg # NoFile
    /\ line < LINE_COUNT
    /\ LET ln == cfg[line + 1]
           r == LineEffect(line, ln.txt, params, errno)
       IN  IF ln.eq
           THEN params' = r.p /\ errno' = r.err
           ELSE UNCHANGED <<params, errno>>
    /\ line' = line + 1
    /\ UNCHANGED <<encVars, pc, cfg, bigEndian, pipeVars, abuf, restVars>>

\* the line loop is over: parametersParse returns params
ParseReturn ==
    /\ pc = "parse"
    /\ cfg # NoFile
    /\ line = LINE_COUNT
    /\ pc' = "size"
    /\ UNCHANGED <<encVars, cfg, bigEndian, line, errno, params, pipeVars,
                   abuf, restVars>>

---------------------------------------------------------------------------
(* waveChunkGenerate: the period sizer *)

RECURSIVE SeqMin(_, _)
SeqMin(s, m) ==
    IF s = <<>> THEN m
    ELSE SeqMin(Tail(s), IF Head(s) < m THEN Head(s) ELSE m)

lowestFreq(p) == SeqMin(Tail(p.freqs), Head(p.freqs))

maxSamples(p) == RMul(p.durationSecs, <<p.sampleRate, 1>>)

baseSampleCount(p) == RMul(Rat(FreqDen, lowestFreq(p)), <<p.sampleRate, 1>>)

\* a first while loop that forgets the duration bound
SizeLoopCond_Unbounded(sc, p) == ~IsIntegral(sc)

\* the condition of the first while loop
SizeLoopCond(sc, p) == ~IsIntegral(sc) /\ RLess(sc, maxSamples(p))

\* a second while loop that extends the chunk to the requested duration only
ExtendLoopCond_UpToDuration(sc, p) == p.applyDither /\ RLess(sc, maxSamples(p))

\* the condition of the second while loop and of the if around it
ExtendLoopCond(sc, p) == p.applyDither /\ RLess(sc, <<p.sampleRate, 1>>)

\* double sampleCount = baseSampleCount;
SizeEnter ==
    /\ pc = "size"
    /\ sampleCount' = baseSampleCount(params)
    /\ pc' = "sizeLoop"
    /\ UNCHANGED <<cfg, bigEndian, line, errno, params, chunk, tone, partials,
                   chunkNaN, oob, rawPeak, encVars, abuf, restVars>>

\* one turn of the first while loop
SizeStep ==
    /\ pc = "sizeLoop"
    /\ Trunc(sampleCount) <= MaxLen
    /\ SizeLoopCond(sampleCount, params)
    /\ sampleCount' = RAdd(sampleCount, baseSampleCount(params))
    /\ UNCHANGED <<pc, cfg, bigEndian, line, errno, params, chunk, tone,
                   partials, chunkNaN, oob, rawPeak, encVars, abuf, restVars>>

SizeExit ==
    /\ pc = "sizeLoop"
    /\ Trunc(sampleCount) <= MaxLen
    /\ ~SizeLoopCond(sampleCount, params)
    /\ pc' = "extendLoop"
    /\ UNCHANGED <<encVars, cfg, bigEndian, line, errno, params, pipeVars,
                   abuf, restVars>>

\* one turn of the second while loop
ExtendStep ==
    /\ pc = "extendLoop"
    /\ Trunc(sampleCount) <= MaxLen
    /\ ExtendLoopCond(sampleCount, params)
    /\ sampleCount' = RAdd(sampleCount, baseSampleCount(params))
    /\ UNCHANGED <<pc, cfg, bigEndian, line, errno, params, chunk, tone,
                   partials, chunkNaN, oob, rawPeak, encVars, abuf, restVars>>

ExtendExit ==
    /\ pc = "extendLoop"
    /\ Trunc(sampleCount) <= MaxLen
    /\ ~ExtendLoopCond(sampleCount, params)
    /\ pc' = "alloc"
    /\ UNCHANGED <<encVars, cfg, bigEndian, line, errno, params, pipeVars,
                   abuf, restVars>>

\* the chunk has outgrown the model: the run is followed no further
Cut ==
    /\ pc \in {"sizeLoop", "extendLoop"}
    /\ Trunc(sampleCount) > MaxLen
    /\ pc' = "cut"
    /\ UNCHANGED <<encVars, cfg, bigEndian, line, errno, params, pipeVars,
                   abuf, restVars>>

\* a failed allocation that lets the run go on
AfterNull_GoesOn(next) == next

\* where the run is after `if (buf == NULL) { ERR_OUT_OF_MEMORY();
\* exit(EXIT_FAILURE); }` found NULL, `next` being the statement after it
AfterNull(next) == "exited"

\* an element of buffer b is read or written
Use(h, b) ==
    IF h[b] = "live" THEN h
    ELSE [h EXCEPT !.faults = @ \cup {<<"use", b, h[b]>>}]

\* free(b)
Free(h, b) ==
    IF h[b] = "live" THEN [h EXCEPT ![b] = "freed"]
    ELSE [h EXCEPT !.faults = @ \cup {<<"free", b, h[b]>>}]

\* calloc(sampleCount, sizeof(*buf)): the double is converted to size_t
Alloc ==
    /\ pc = "alloc"
    /\ chunk' = [i \in 1..Trunc(sampleCount) |-> 0]
    /\ tone' = 0
    /\ heap' = [heap EXCEPT !.src = "live"]
    /\ pc' = "synth"
    /\ UNCHANGED <<cfg, bigEndian, line, errno, params, sampleCount, partials,
                   chunkNaN, oob, rawPeak, encVars, abuf, mainVars>>

\* calloc returns NULL
CallocFail ==
    /\ pc = "alloc"
    /\ fatal' = "memory"
    /\ exitCode' = EXIT_FAILURE
    /\ tone' = 0
    /\ pc' = AfterNull("synth")
    /\ UNCHANGED <<cfg, bigEndian, line, errno, params, sampleCount, chunk,
                   partials, chunkNaN, oob, rawPeak, encVars, abuf, file,
                   seeds, heap>>

---------------------------------------------------------------------------
(* addWave: the harmonic synthesizer *)

\* sin(2 pi n / 24) in sample units, n \in 0..6
SinQuarter == <<0, 66, 128, 181, 222, 247, 256>>

Sin24(n) ==
    LET q == n % 24
    IN  CASE q <= 6 -> SinQuarter[q + 1]
          [] q <= 12 -> SinQuarter[12 - q + 1]
          [] q <= 18 -> -SinQuarter[q - 12 + 1]
          [] OTHER -> -SinQuarter[24 - q + 1]

\* sin((2.0 * PI * freq * factor) / rate * i), the angle taken to the
\* nearest 24th of a turn
SINE_WAVE(freq, factor, rate, i) ==
    Sin24(RoundDiv(24 * freq * factor * i, rate * FreqDen))

\* freq < rate / 2.0
BELOW_NYQUIST(freq, rate) == 2 * freq < rate * FreqDen

\* a harmonic loop that steps through every integer factor
NextFactor_EveryInteger(type, factor) == factor + 1

\* how each harmonic loop moves on to its next factor
NextFactor(type, factor) ==
    CASE type = WAVE_TRIANGLE -> factor + 2
      [] type = WAVE_SQUARE -> factor + 2
      [] type = WAVE_SAW -> factor + 1
      [] type = WAVE_EVEN -> (IF factor = 1 THEN 0 ELSE factor) + 2

\* the factors a harmonic loop goes through, from `factor` on
RECURSIVE LoopFactors(_, _, _, _)
LoopFactors(type, freq, rate, factor) ==
    IF BELOW_NYQUIST(freq * factor, rate)
    THEN <<factor>> \o LoopFactors(type, freq, rate, NextFactor(type, factor))
    ELSE <<>>

\* the factors addWave synthesizes for one tone, in order
Factors(type, freq, rate) ==
    CASE type = WAVE_SINE -> <<1>>
      [] type \in {WAVE_TRIANGLE, WAVE_SQUARE, WAVE_SAW, WAVE_EVEN} ->
            LoopFactors(type, freq, rate, 1)
      [] OTHER -> <<>>

\* what the j-th turn of a harmonic loop adds to sample i: the sine times
\* amp (PI taken as 355/113), and for the triangle times phase
Partial(type, freq, rate, factor, j, i) ==
    LET s == SINE_WAVE(freq, factor, rate, i)
    IN  CASE type = WAVE_TRIANGLE ->
                RoundDiv(s, factor * factor) * (IF j % 2 = 1 THEN 1 ELSE -1)
          [] type = WAVE_SQUARE -> RoundDiv(s * 4 * 113, factor * 355)
          [] type = WAVE_SAW -> RoundDiv(s, factor)
          [] type = WAVE_EVEN -> RoundDiv(s, factor)

RECURSIVE SumPartials(_, _, _, _, _, _)
SumPartials(type, freq, rate, fs, j, i) ==
    IF j > Len(fs) THEN 0
    ELSE Partial(type, freq, rate, fs[j], j, i)
            + SumPartials(type, freq, rate, fs, j + 1, i)

\* the first len elements of buf after addWave(buf, len, type, freq, rate)
addWave(buf, len, type, freq, rate) ==
    [ n \in 1..len |->
        IF type = WAVE_SINE
        THEN SINE_WAVE(freq, 1, rate, n - 1)
        ELSE buf[n] + SumPartials(type, freq, rate,
                                  Factors(type, freq, rate), 1, n - 1) ]

\* a loop over p->freqs that ends after the first tone
ToneLoopCond_FirstOnly(i, p) == i < 1

\* the condition of the loop over p->freqs: i < p->freqCount
ToneLoopCond(i, p) == i < Len(p.freqs)

\* one turn of the loop over p->freqs
AddTone ==
    /\ pc = "synth"
    /\ ToneLoopCond(tone, params)
    /\ LET freq == params.freqs[tone + 1]
       IN  /\ chunk' = addWave(chunk, Trunc(sampleCount), params.waveType,
                               freq, params.sampleRate)
           /\ partials' = partials \cup
                { <<freq, Factors(params.waveType, freq, params.sampleRate)[j]>> :
                    j \in 1..Len(Factors(params.waveType, freq,
                                         params.sampleRate)) }
    /\ tone' = tone + 1
    /\ heap' = Use(heap, "src")
    /\ UNCHANGED <<pc, cfg, bigEndian, line, errno, params, sampleCount,
                   chunkNaN, oob, rawPeak, encVars, abuf, mainVars>>

SynthDone ==
    /\ pc = "synth"
    /\ ~ToneLoopCond(tone, params)
    /\ pc' = "peak"
    /\ UNCHANGED <<encVars, cfg, bigEndian, line, errno, params, pipeVars,
                   abuf, restVars>>

---------------------------------------------------------------------------
(* waveChunkGenerate: the peak normalizer *)

\* pow(10.0, decibels * 0.05) in sample units, for the levels of the model
Pow10Db(decibels) ==
    CASE decibels = -20 -> 26
      [] decibels = -6 -> 128
      [] decibels = -1 -> 228
      [] decibels = 0 -> 256
      [] decibels = 6 -> 511

decibelsToGain(decibels) ==
    IF decibels > MINUS_INF_DB THEN Pow10Db(decibels) ELSE 0

\* what a read of the element just past the chunk may return
GarbageValues == {-4 * Unit, 0, 4 * Unit}

\* the elements the loops `i < sampleCount` go through: i is compared with
\* the double, so a fractional sampleCount lets i reach the element past
\* the (size_t)sampleCount allocated ones, which holds g
Scanned(buf, sc, g) == IF IsIntegral(sc) THEN buf ELSE Append(buf, g)

\* posPeak and negPeak as the scan loop leaves them
RECURSIVE PeakScan(_, _, _)
PeakScan(s, posPeak, negPeak) ==
    IF s = <<>> THEN <<posPeak, negPeak>>
    ELSE IF Head(s) > posPeak THEN PeakScan(Tail(s), Head(s), negPeak)
    ELSE IF Head(s) < negPeak THEN PeakScan(Tail(s), posPeak, Head(s))
    ELSE PeakScan(Tail(s), posPeak, negPeak)

\* absPeak before the division by the gain
AbsPeak(s) ==
    LET pk == PeakScan(Tail(s), Head(s), Head(s))
        posPeak == pk[1]
        negPeak == pk[2]
    IN  IF posPeak > -negPeak THEN posPeak ELSE -negPeak

\* absPeak /= decibelsToGain(p->amplitude): a positive rational, or what
\* IEEE division by zero gives
Divisor(absPeak, gain) ==
    IF gain = 0
    THEN [k |-> IF absPeak = 0 THEN "nan" ELSE "inf", q |-> <<0, 1>>]
    ELSE [k |-> "fin", q |-> Rat(absPeak, gain)]

\* buf[i] / absPeak for a finite sample: 0 for an infinite divisor
DivideSample(x, d) ==
    CASE d.k = "inf" -> 0
      [] d.k = "fin" /\ d.q[1] # 0 -> RoundDiv(x * d.q[2], d.q[1])
      [] OTHER -> 0

\* the peak scan and the division loop; then waveChunkGenerate returns
Normalize ==
    /\ pc = "peak"
    /\ \E g \in GarbageValues :
         LET s == Scanned(chunk, sampleCount, g)
             d == Divisor(AbsPeak(s), decibelsToGain(params.amplitude))
         IN  /\ chunk' = IF d = [k |-> "fin", q |-> <<1, 1>>] THEN chunk
                         ELSE [n \in 1..Len(chunk) |-> DivideSample(chunk[n], d)]
             /\ chunkNaN' = (d.k = "nan" \/ (d.k = "fin" /\ d.q[1] = 0))
    /\ oob' = ~IsIntegral(sampleCount)
    /\ rawPeak' = IF chunk = <<>> THEN 0 ELSE AbsPeak(chunk)
    /\ heap' = Use(heap, "src")
    /\ pc' = "dither"
    /\ UNCHANGED <<cfg, bigEndian, line, errno, params, sampleCount, tone,
                   partials, encVars, abuf, mainVars>>

---------------------------------------------------------------------------
(* audioBufferBuild: the ditherer *)

\* a call of applyDither that looks at the dither flag alone
ditherApplies_AnyFormat(p) == p.applyDither

\* the condition audioBufferBuild puts on the call of applyDither
ditherApplies(p) == p.sampleFormat = FMT_INT_PCM /\ p.applyDither

\* rand() - rand() of the i-th sample as a multiple of RAND_MAX.  rand() is
\* never seeded, but its sequence is the C library's: the draws are inputs
NoisePatterns == {"zero", "max", "min", "alt"}

RandDiff(pat, i) ==
    CASE pat = "zero" -> 0
      [] pat = "max"  -> 1
      [] pat = "min"  -> -1
      [] pat = "alt"  -> IF i % 2 = 1 THEN 1 ELSE -1

\* applyDither: buf[i] += (rand() - rand()) * amp with amp * RAND_MAX =
\* 1/2^(bits-1); the result is what is added to each sample, in that unit
applyDither(len, pat) == [i \in 1..len |-> RandDiff(pat, i)]

Dither ==
    /\ pc = "dither"
    /\ IF ditherApplies(params)
       THEN /\ \E pat \in NoisePatterns : noise' = applyDither(Len(chunk), pat)
            /\ dithered' = TRUE
            /\ randDraws' = randDraws + 2 * Len(chunk)
       ELSE /\ noise' = Zeros(Len(chunk))
            /\ UNCHANGED <<dithered, randDraws>>
    /\ heap' = IF ditherApplies(params) THEN Use(heap, "src") ELSE heap
    /\ pc' = "encode"
    /\ UNCHANGED <<cfg, bigEndian, line, errno, params, pipeVars, out,
                   abuf, mainVars>>

---------------------------------------------------------------------------
(* audioBufferBuild: the sample encoder *)

\* size_t maxInt = pow(2, bits - 1) - 1, for a whole number of bytes
maxInt(bits) == BigSub(BigShl(<<128>>, bits \div 8 - 1), <<1>>)

\* src[i] * maxInt as a double, times 2^bits: src[i] is s/Unit + n/2^(bits-1)
Scaled(s, n, bits) ==
    LET k == bits \div 8
        w == SAdd([neg |-> s < 0, mag |-> BigShl(BigOfNat(Abs(s)), k - 1)],
                  SInt(2 * n))
    IN  [neg |-> w.neg, mag |-> BigRound53(BigMul(w.mag, maxInt(bits)))]

\* a conversion that drops the fraction instead of rounding
lround_Truncating(num, bits) ==
    [neg |-> num.neg, mag |-> BigShr(num.mag, bits \div 8)]

\* lround(x) for x = num/2^bits: halfway cases go away from zero
lround(num, bits) ==
    LET k == bits \div 8
    IN  [neg |-> num.neg,
         mag |-> BigShr(BigAdd(num.mag, BigShl(<<128>>, k - 1)), k)]

\* lround(src[i] * maxInt + offset): a long, as its 8 bytes
Quantize(s, n, bits, offset) ==
    LET k == bits \div 8
        x == SAdd(Scaled(s, n, bits),
                  [neg |-> FALSE, mag |-> BigShl(BigOfNat(offset), k)])
    IN  TwosComplement(lround(x, bits), 8)

\* an object of several bytes as the host keeps it in memory
HostOrder(bytesLE, be) == IF be THEN Reverse(bytesLE) ELSE bytesLE

\* the binary digits of n in w places, most significant first
RECURSIVE BitsMSB(_, _)
BitsMSB(n, w) ==
    IF w = 0 THEN <<>> ELSE Append(BitsMSB(n \div 2, w - 1), n % 2)

\* the IEEE 754 bytes, least significant first, of m * 2^e for an exponent
\* field of ew bits and a fraction field of mw bits that holds m exactly
FloatBytes(m, e, ew, mw) ==
    LET k == (1 + ew + mw) \div 8
        p == BitLen(Abs(m)) - 1
        bits == <<IF m < 0 THEN 1 ELSE 0>>
                \o BitsMSB(p + e + Pow2(ew - 1) - 1, ew)
                \o BitsMSB(Abs(m) - Pow2(p), p) \o Zeros(mw - p)
    IN  IF m = 0 THEN Zeros(k)
        ELSE Reverse([j \in 1..k |->
                 bits[8*j-7] * 128 + bits[8*j-6] * 64 + bits[8*j-5] * 32
                 + bits[8*j-4] * 16 + bits[8*j-3] * 8 + bits[8*j-2] * 4
                 + bits[8*j-1] * 2 + bits[8*j]])

\* a quiet NaN of either sign
NaNBytes(sign, ew, mw) ==
    LET k == (1 + ew + mw) \div 8
    IN  [j \in 1..k |-> IF j = k THEN 128 * sign + 127
                        ELSE IF j = k - 1 THEN (IF ew = 8 THEN 192 ELSE 248)
                        ELSE 0]

\* the bytes an unwritten malloc'ed byte, or a store whose value is
\* undefined, can hold
GarbageBytes == {0, 255}

\* the bytes of the double src[i], for a buffer that is src itself
DoubleBytes(s, n, nan, sign, be) ==
    HostOrder(IF nan THEN NaNBytes(sign, 11, 52)
              ELSE IF s # 0 \/ n = 0 THEN FloatBytes(s, -8, 11, 52)
              ELSE FloatBytes(n, -63, 11, 52), be)

\* what one turn of the loop of the case (format, bits) stores for src[i].
\* lround of a NaN is unspecified; its low 32 bits are 0 where long has 64
EncodeSample(format, bits, s, n, nan, sign, be) ==
    LET q == IF nan THEN Zeros(8)
             ELSE Quantize(s, n, bits, IF bits = 8 THEN 128 ELSE 0)
    IN  CASE format = FMT_INT_PCM /\ bits = 8  -> BigLow(q, 1)
          [] format = FMT_INT_PCM /\ bits = 16 -> HostOrder(BigLow(q, 2), be)
          [] format = FMT_INT_PCM /\ bits = 24 -> BigLow(BigLow(q, 4), 3)
          [] format = FMT_INT_PCM /\ bits = 32 -> HostOrder(BigLow(q, 4), be)
          [] format = FMT_FLOAT_PCM /\ bits = 32 ->
                 HostOrder(IF nan THEN NaNBytes(sign, 8, 23)
                           ELSE FloatBytes(s, -8, 8, 23), be)

\* the (format, bits) pairs the two switches have a case for
HasCase(format, bits) ==
    \/ format = FMT_INT_PCM /\ bits \in {8, 16, 24, 32}
    \/ format = FMT_FLOAT_PCM /\ bits = 32

\* b.buf after the switch: src itself for 64 bits, else len * bytes bytes of
\* malloc written by the case found, or left as malloc gave them
EncodeBuffer(p, src, dth, nan, sign, garbage, be) ==
    LET bits == p.bitsPerSample
    IN  IF bits = 64
        THEN Flatten([i \in 1..Len(src) |->
                         DoubleBytes(src[i], dth[i], nan, sign, be)])
        ELSE IF HasCase(p.sampleFormat, bits)
        THEN Flatten([i \in 1..Len(src) |->
                         EncodeSample(p.sampleFormat, bits, src[i], dth[i],
                                      nan, sign, be)])
        ELSE [i \in 1..(Len(src) * (bits \div 8)) |-> garbage]

\* an initializer that takes the bit depth for the byte count
AudioBufferInit_BitsAsBytes(p, len) ==
    [sampleCount |-> len, bytesPerSample |-> p.bitsPerSample]

\* the initializer of b: the counts, whatever malloc returns
AudioBufferInit(p, len) ==
    [sampleCount |-> len, bytesPerSample |-> p.bitsPerSample \div 8]

\* a build that frees src whatever the depth
FreesSource_Always(p) == TRUE

\* if (bits != 64) free(src)
FreesSource(p) == p.bitsPerSample # 64

\* the buffer b.buf points to: (bits == 64) ? src : malloc(len * bytes)
bufOf(p) == IF p.bitsPerSample = 64 THEN "src" ELSE "dst"

\* the sample buffers after the allocation of b.buf, the conversion loops
\* and the free of src
BuildHeap(h, p) ==
    LET allocated == IF bufOf(p) = "dst" THEN [h EXCEPT !.dst = "live"] ELSE h
        converted == IF HasCase(p.sampleFormat, p.bitsPerSample)
                     THEN Use(Use(allocated, "src"), bufOf(p))
                     ELSE allocated
    IN  IF FreesSource(p) THEN Free(converted, "src") ELSE converted

Encode ==
    /\ pc = "encode"
    /\ abuf' = AudioBufferInit(params, Len(chunk))
    /\ heap' = BuildHeap(heap, params)
    /\ \E sign \in {0, 1}, garbage \in GarbageBytes :
         out' = EncodeBuffer(params, chunk, noise, chunkNaN, sign, garbage,
                             bigEndian)
    /\ pc' = "endian"
    /\ UNCHANGED <<cfg, bigEndian, line, errno, params, pipeVars, noise,
                   dithered, randDraws, mainVars>>

\* malloc(len * bytes) returns NULL: b.buf == NULL
MallocFail ==
    /\ pc = "encode"
    /\ params.bitsPerSample # 64
    /\ abuf' = AudioBufferInit(params, Len(chunk))
    /\ fatal' = "memory"
    /\ exitCode' = EXIT_FAILURE
    /\ pc' = AfterNull("endian")
    /\ UNCHANGED <<cfg, bigEndian, line, errno, params, pipeVars, encVars,
                   file, seeds, heap>>

---------------------------------------------------------------------------
(* audioBufferBuild: the byte order of the result *)

\* the indices i of the loop of convertToLittleEndian, from 1
ConvertIndices(len, size) == { i \in 1..len : (i - 1) % size = 0 }

\* convertToLittleEndian on a big-endian host.  res.n = 0.0 makes res.b a
\* null pointer and src.n makes src.b the bit pattern of a double, and the
\* inner loop reads through the one and writes through the other: undefined
\* behaviour.  The run is killed there, or it goes on to the one store of
\* the function, buf[i] = (uint8_t)res.n, whose value is then undefined.
\* With size = 0 the loop never advances.
Convert ==
    /\ pc = "endian"
    /\ bigEndian
    /\ LET size == params.bitsPerSample \div 8
           len == Len(chunk)
       IN  \/ /\ len > 0 /\ size > 0
              /\ pc' = "crashed"
              /\ out' = out
           \/ /\ len > 0 /\ size = 0
              /\ pc' = "hung"
              /\ out' = out
           \/ /\ size > 0
              /\ \E v \in GarbageBytes :
                   out' = [i \in 1..Len(out) |->
                             IF i \in ConvertIndices(len, size) THEN v
                             ELSE out[i]]
              /\ pc' = "return"
    /\ heap' = Use(heap, bufOf(params))
    /\ UNCHANGED <<cfg, bigEndian, line, errno, params, pipeVars, noise,
                   dithered, randDraws, abuf, mainVars>>

\* audioBufferBuild returns b
BuildReturn ==
    /\ \/ pc = "endian" /\ ~bigEndian
       \/ pc = "return"
    /\ pc' = "built"
    /\ UNCHANGED <<cfg, bigEndian, line, errno, params, pipeVars, encVars,
                   abuf, restVars>>

---------------------------------------------------------------------------
(* main: the output file and the chunk tiler *)

\* fclose(fopen(p.outputFile, "w")).  When fopen returns NULL, fclose(NULL)
\* is undefined: the run is killed there or goes on
ClearFile ==
    /\ pc = "built"
    /\ \E ok \in BOOLEAN :
         IF ok
         THEN pc' = "open" /\ file' = file
         ELSE /\ pc' \in {"open", "crashed"}
              /\ file' = [file EXCEPT !.nullOps = @ + 1]
    /\ UNCHANGED <<cfg, bigEndian, line, errno, params, pipeVars, encVars,
                   abuf, fatal, exitCode, seeds, heap>>

\* fopen(p.outputFile, "ab") succeeds
OpenFile ==
    /\ pc = "open"
    /\ file' = [file EXCEPT !.opened = TRUE]
    /\ pc' = "header"
    /\ UNCHANGED <<cfg, bigEndian, line, errno, params, pipeVars, encVars,
                   abuf, fatal, exitCode, seeds, heap>>

\* fopen(p.outputFile, "ab") returns NULL
OpenFail ==
    /\ pc = "open"
    /\ fatal' = "file"
    /\ exitCode' = EXIT_FAILURE
    /\ pc' = "exited"
    /\ UNCHANGED <<cfg, bigEndian, line, errno, params, pipeVars, encVars,
                   abuf, file, seeds, heap>>

\* one fwrite: what it takes from, and its count argument
Write(what, count) == [what |-> what, count |-> count]

\* double chunks = p.sampleRate * p.durationSecs / buf.sampleCount
chunks(p, b) == RMul(RMul(<<p.sampleRate, 1>>, p.durationSecs),
                     Rat(1, b.sampleCount))

\* the turns the loop over (size_t)chunks has made
WholeWritten ==
    Len(SelectSeq(file.writes, LAMBDA w : w.what = "chunk"))

\* a tail that is the whole buffer again
TailCount_WholeBuffer(p, b) == b.sampleCount

\* buf.sampleCount * trailingChunk as the size_t that fwrite gets
TailCount(p, b) ==
    LET c == chunks(p, b)
        trailingChunk == RAdd(c, <<-Trunc(c), 1>>)
    IN  Trunc(RMul(<<b.sampleCount, 1>>, trailingChunk))

\* the sizes wavHeaderBuild(&p) declares; main builds the header right after
\* the parse, from the p it writes the data with
wavHeaderBuild(p) ==
    LET numChannels == 1
        blockAlign == (numChannels * p.bitsPerSample) \div 8
        subChunk2Size ==
            Trunc(RMul(RMul(<<p.sampleRate, 1>>, p.durationSecs),
                       <<blockAlign, 1>>))
    IN  [ blockAlign |-> blockAlign,
          byteRate |-> p.sampleRate * blockAlign,
          subChunk2Size |-> subChunk2Size,
          chunkSize |-> 36 + subChunk2Size ]

\* fwrite(&header, sizeof(header), 1, f), and chunks is computed.  With a
\* sampleCount of 0 chunks is infinite or a NaN
WriteHeader ==
    /\ pc = "header"
    /\ file' = [file EXCEPT !.writes = Append(@, Write("header", 1)),
                            !.header = wavHeaderBuild(params)]
    /\ pc' = IF abuf.sampleCount = 0 THEN "tileByZero" ELSE "tile"
    /\ UNCHANGED <<cfg, bigEndian, line, errno, params, pipeVars, encVars,
                   abuf, fatal, exitCode, seeds, heap>>

\* (size_t)chunks for an infinite or NaN chunks is undefined: the loop may
\* not end in any useful time, the run may be killed, or nothing is written
TileByZero ==
    /\ pc = "tileByZero"
    /\ pc' \in {"hung", "crashed", "close"}
    /\ UNCHANGED <<cfg, bigEndian, line, errno, params, pipeVars, encVars,
                   abuf, restVars>>

\* a loop over the whole chunks that makes one turn more
TileLoopCond_OneMore(i, p, b) == i <= Trunc(chunks(p, b))

\* the condition of the loop over the whole chunks: i < (size_t)chunks
TileLoopCond(i, p, b) == i < Trunc(chunks(p, b))

\* one turn of the loop over the whole chunks
WriteChunk ==
    /\ pc = "tile"
    /\ Trunc(chunks(params, abuf)) <= MaxChunks
    /\ TileLoopCond(WholeWritten, params, abuf)
    /\ file' = [file EXCEPT
                  !.writes = Append(@, Write("chunk", abuf.sampleCount))]
    /\ heap' = Use(heap, bufOf(params))
    /\ UNCHANGED <<pc, cfg, bigEndian, line, errno, params, pipeVars,
                   encVars, abuf, fatal, exitCode, seeds>>

\* the loop is over; the trailing part of a chunk is written if there is one
WriteTail ==
    /\ pc = "tile"
    /\ Trunc(chunks(params, abuf)) <= MaxChunks
    /\ ~TileLoopCond(WholeWritten, params, abuf)
    /\ LET c == chunks(params, abuf)
           trailingChunk == RAdd(c, <<-Trunc(c), 1>>)
       IN  /\ file' = IF RLess(<<0, 1>>, trailingChunk)
                      THEN [file EXCEPT !.writes =
                              Append(@, Write("tail", TailCount(params, abuf)))]
                      ELSE file
           /\ heap' = IF RLess(<<0, 1>>, trailingChunk)
                      THEN Use(heap, bufOf(params))
                      ELSE heap
    /\ pc' = "close"
    /\ UNCHANGED <<cfg, bigEndian, line, errno, params, pipeVars, encVars,
                   abuf, fatal, exitCode, seeds>>

\* the loop has outgrown the model: the run is followed no further
TileCut ==
    /\ pc = "tile"
    /\ Trunc(chunks(params, abuf)) > MaxChunks
    /\ pc' = "cut"
    /\ UNCHANGED <<cfg, bigEndian, line, errno, params, pipeVars, encVars,
                   abuf, restVars>>

\* fclose(f), loggerClose(0), the two destroys (audioBufferDestroy frees
\* b->buf), return 0
MainReturn ==
    /\ pc = "close"
    /\ exitCode' = 0
    /\ heap' = Free(heap, bufOf(params))
    /\ pc' = "done"
    /\ UNCHANGED <<cfg, bigEndian, line, errno, params, pipeVars, encVars,
                   abuf, fatal, file, seeds>>

Next ==
    \/ ParseNoFile \/ ParseLine \/ ParseReturn
    \/ SizeEnter \/ SizeStep \/ SizeExit \/ ExtendStep \/ ExtendExit \/ Cut
    \/ Alloc \/ CallocFail \/ AddTone \/ SynthDone \/ Normalize
    \/ Dither \/ Encode \/ MallocFail \/ Convert \/ BuildReturn
    \/ ClearFile \/ OpenFile \/ OpenFail \/ WriteHeader \/ TileByZero
    \/ WriteChunk \/ WriteTail \/ TileCut \/ MainReturn

Spec == Init /\ [][Next]_vars

---------------------------------------------------------------------------
(* Properties of the synthesis stages *)

\* where the run is, once the two sizing loops are over
AfterSizing ==
    {"alloc", "synth", "peak", "dither", "encode", "endian", "return",
     "built", "crashed", "hung"}

\* what one tone alone puts into sample i of a zeroed chunk
Contribution(type, freq, rate, i) ==
    IF type = WAVE_SINE THEN SINE_WAVE(freq, 1, rate, i)
    ELSE SumPartials(type, freq, rate, Factors(type, freq, rate), 1, i)

RECURSIVE ToneSum(_, _, _, _)
ToneSum(type, freqs, rate, i) ==
    IF freqs = <<>> THEN 0
    ELSE Contribution(type, Head(freqs), rate, i)
            + ToneSum(type, Tail(freqs), rate, i)

\* C1: when waveChunkGenerate has called addWave once per tone on the zeroed
\* chunk, every sample is the sum of the contributions of all the tones, for
\* every shape, the sine included.
C1_TonesSuperpose ==
    pc = "peak" =>
        \A n \in 1..Len(chunk) :
            chunk[n] = ToneSum(params.waveType, params.freqs,
                               params.sampleRate, n - 1)

\* C2: every partial that contributes to the chunk, of every shape and of
\* every tone a run hands to addWave, has freq * factor < sampleRate / 2.
C2_PartialsBelowNyquist ==
    \A pr \in partials : 2 * pr[1] * pr[2] < params.sampleRate * FreqDen

\* the k-th multiple of base ends the first loop
SizingStops(p, k) ==
    LET n == RMul(<<k, 1>>, baseSampleCount(p))
    IN  IsIntegral(n) \/ ~RLess(n, maxSamples(p))

C4_ChunkRepeatsEveryTone ==
    (pc = "synth" /\ IsIntegral(sampleCount)) =>
        \A t \in 1..Len(params.freqs) :
            (Trunc(sampleCount) * params.freqs[t])
                % (params.sampleRate * FreqDen) = 0

MaxAbs(buf) ==
    IF buf = <<>> THEN 0
    ELSE CHOOSE m \in {Abs(buf[i]) : i \in 1..Len(buf)} :
            \A i \in 1..Len(buf) : Abs(buf[i]) <= m

\* C5: for a chunk whose peak is not zero, after the normalization the
\* largest |sample| of the chunk is decibelsToGain(amplitude) when
\* amplitude > -150, and every sample is 0 when amplitude <= -150.
C5_PeakIsGain ==
    (pc = "dither" /\ rawPeak # 0) =>
        /\ ~chunkNaN
        /\ IF params.amplitude > MINUS_INF_DB
           THEN MaxAbs(chunk) = decibelsToGain(params.amplitude)
           ELSE \A n \in 1..Len(chunk) : chunk[n] = 0

---------------------------------------------------------------------------
(* Properties of audioBufferBuild *)

AfterDither == {"encode", "endian", "return", "built", "crashed", "hung"}

\* C6: applyDither is called if and only if the format is integer PCM and
\* the dither flag is set; for a floating-point format it is never called,
\* no sample gets noise and rand() is never called, whatever the flag.
C6_DitherIffIntegerAndFlag ==
    /\ pc \in AfterDither =>
          (dithered <=> (params.sampleFormat = FMT_INT_PCM
                            /\ params.applyDither))
    /\ ~dithered => (randDraws = 0 /\ \A i \in 1..Len(noise) : noise[i] = 0)
    /\ params.sampleFormat # FMT_INT_PCM => ~dithered

\* C6 (case reached): a floating-point run with the dither flag set has
\* passed the dither step
C6_FloatFlagSetNoDither ==
    /\ pc = "encode"
    /\ params.sampleFormat = FMT_FLOAT_PCM
    /\ params.applyDither
    /\ Len(chunk) > 0
    /\ ~dithered

\* the bytes of sample i of the encoded buffer, in memory order
SampleBytes(i) ==
    LET k == params.bitsPerSample \div 8
    IN  SubSeq(out, (i - 1) * k + 1, i * k)

\* the switch of audioBufferBuild has just stored every sample of an
\* integer format
IntegerEncoded ==
    /\ pc = "endian"
    /\ params.sampleFormat = FMT_INT_PCM
    /\ params.bitsPerSample \in {8, 16, 24, 32}
    /\ ~chunkNaN

\* C7: the byte stored for an 8-bit sample s in [-1, 1] is
\* roundHalfAwayFromZero(s * 127) + 128: the product is rounded, then the
\* offset is added.
C7_RoundThenOffset ==
    (IntegerEncoded /\ params.bitsPerSample = 8) =>
        \A i \in 1..Len(chunk) :
            LET s == chunk[i] + 2 * noise[i]
            IN  Abs(s) <= Unit => out[i] = RoundDiv(s * 127, Unit) + 128

\* sample i before the conversion, times 2^bits
SampleValue(i) ==
    LET k == params.bitsPerSample \div 8
    IN  SAdd([neg |-> chunk[i] < 0,
              mag |-> BigShl(BigOfNat(Abs(chunk[i])), k - 1)],
             SInt(2 * noise[i]))

\* the integer the bytes stored for sample i hold: an int16_t or int32_t as
\* the host reads it, the three bytes of a 24-bit sample least significant
\* byte first
Decoded(i) ==
    LET k == params.bitsPerSample \div 8
    IN  FromTwosComplement(IF k = 3 THEN SampleBytes(i)
                           ELSE HostOrder(SampleBytes(i), bigEndian), k)

\* v is x, a multiple of 1/2^bits, rounded to the nearest integer with the
\* halfway cases away from zero
IsRoundHalfAway(v, x, bits) ==
    LET k  == bits \div 8
        v2 == BigMulSmall(v.mag, 2, 0)
        x2 == BigMulSmall(x.mag, 2, 0)
    IN  /\ BigIsZero(v.mag) \/ v.neg = x.neg
        /\ BigCmp(BigShl(v2, k), BigAdd(x2, BigShl(<<1>>, k))) <= 0
        /\ BigCmp(x2, BigShl(BigAdd(v2, <<1>>), k)) < 0

\* C8: the bytes stored for a 16-, 24- or 32-bit sample s in [-1, 1] decode
\* to roundHalfAwayFromZero(s * maxInt), the product being the double the
\* program computes, and that integer over maxInt is s within one step
\* 1/maxInt; 0.5 at 16 bits is stored as 16384.
C8_IntegerRoundTrip ==
    (IntegerEncoded /\ params.bitsPerSample \in {16, 24, 32}) =>
        \A i \in 1..Len(chunk) :
            LET bits == params.bitsPerSample
                k == bits \div 8
                s == SampleValue(i)
                v == Decoded(i)
                back == [neg |-> v.neg, mag |-> BigShl(v.mag, k)]
                exact == [neg |-> s.neg, mag |-> BigMul(s.mag, maxInt(bits))]
            IN  BigCmp(s.mag, BigShl(<<1>>, k)) <= 0 =>
                  /\ IsRoundHalfAway(v, Scaled(chunk[i], noise[i], bits), bits)
                  /\ BigCmp(SAdd(back, SNeg(exact)).mag, BigShl(<<1>>, k)) <= 0
                  /\ (bits = 16 /\ chunk[i] = Unit \div 2 /\ noise[i] = 0)
                        => SEq(v, SInt(16384))

\* C8 (case reached): a sample 0.5 and a negative sample have been stored at
\* 16 bits, and the first is 16384 in the buffer
C8_HalfAtSixteenBits ==
    /\ IntegerEncoded
    /\ params.bitsPerSample = 16
    /\ \E i \in 1..Len(chunk) :
          /\ chunk[i] = Unit \div 2
          /\ noise[i] = 0
          /\ HostOrder(SampleBytes(i), bigEndian) = <<0, 64>>
    /\ \E i \in 1..Len(chunk) : chunk[i] < 0 /\ chunk[i] >= -Unit

\* the value lround returns for sample i
Rounded(i) ==
    FromTwosComplement(
        Quantize(chunk[i], noise[i], params.bitsPerSample,
                 IF params.bitsPerSample = 8 THEN 128 ELSE 0), 8)

\* x brought into lo..hi
Clamp(x, lo, hi) ==
    IF SCmp(x, lo) < 0 THEN lo ELSE IF SCmp(x, hi) > 0 THEN hi ELSE x

\* C9: the value stored for an integer sample is the rounded value clamped
\* to the range of the width, -2^(bits-1) .. 2^(bits-1)-1 for 16, 24 and 32
\* bits and 0 .. 255 for 8 bits, at every accepted level and with or without
\* dither: nothing wraps around.
C9_StoredValueClamped ==
    IntegerEncoded =>
        \A i \in 1..Len(chunk) :
            LET bits == params.bitsPerSample
                k == bits \div 8
                hi == [neg |-> FALSE, mag |-> maxInt(bits)]
                lo == [neg |-> TRUE, mag |-> BigShl(<<128>>, k - 1)]
            IN  IF bits = 8
                THEN SEq(SInt(out[i]), Clamp(Rounded(i), SInt(0), SInt(255)))
                ELSE SEq(Decoded(i), Clamp(Rounded(i), lo, hi))

\* C10: the buffer audioBufferBuild returns holds the bytes a little-endian
\* host stores for the same samples, whatever the byte order of the host.
C10_ReturnedLittleEndian ==
    (/\ pc = "built"
     /\ HasCase(params.sampleFormat, params.bitsPerSample)
     /\ ~chunkNaN) =>
        out = EncodeBuffer(params, chunk, noise, FALSE, 0, 0, FALSE)

\* the (format, bits) pairs the program supports
Supported(p) ==
    \/ p.sampleFormat = FMT_INT_PCM /\ p.bitsPerSample \in {8, 16, 24, 32}
    \/ p.sampleFormat = FMT_FLOAT_PCM /\ p.bitsPerSample \in {32, 64}

\* C11: for a supported (format, bits) pair the AudioBuffer has
\* bytesPerSample = bits / 8 and sampleCount = the chunk length, its buffer
\* has sampleCount * bytesPerSample bytes, and when the switch is over each
\* sample's bytes are the encoding of that sample: none is left unwritten.
C11_BufferShape ==
    (pc \in {"endian", "return", "built"} /\ Supported(params)) =>
        /\ 8 * abuf.bytesPerSample = params.bitsPerSample
        /\ abuf.sampleCount = Len(chunk)
        /\ Len(out) = Len(chunk) * abuf.bytesPerSample
        /\ pc = "endian" =>
              \A i \in 1..Len(chunk) :
                 \E sign \in {0, 1} :
                    SampleBytes(i) =
                       IF params.bitsPerSample = 64
                       THEN DoubleBytes(chunk[i], noise[i], chunkNaN, sign,
                                        bigEndian)
                       ELSE EncodeSample(params.sampleFormat,
                                         params.bitsPerSample, chunk[i],
                                         noise[i], chunkNaN, sign, bigEndian)

\* C11 (case reached): a 64-bit float buffer, which is the chunk itself,
\* and a 24-bit integer buffer have been built
C11_SupportedBuilt ==
    /\ pc = "built"
    /\ Supported(params)
    /\ params.bitsPerSample \in {24, 64}
    /\ Len(chunk) > 1
    /\ Len(out) = Len(chunk) * abuf.bytesPerSample

---------------------------------------------------------------------------
(* Properties of main *)

\* a non-negative rational rounded to the nearest integer, halves upwards
RoundRat(q) == (2 * q[1] + q[2]) \div (2 * q[2])

RECURSIVE SumCounts(_, _)
SumCounts(ws, kinds) ==
    IF ws = <<>> THEN 0
    ELSE (IF Head(ws).what \in kinds THEN Head(ws).count ELSE 0)
            + SumCounts(Tail(ws), kinds)

\* the tiling loop and the tail write are over
Tiled == pc \in {"close", "done"} /\ abuf.sampleCount >= 1

\* C12: with totalChunks = R * D / chunkLength main writes the buffer
\* floor(totalChunks) times and then a tail of
\* round(chunkLength * (totalChunks - floor(totalChunks))) samples: the tail
\* count is rounded to the nearest integer, not truncated.
C12_TailRounded ==
    Tiled =>
        LET c == chunks(params, abuf)
            rest == RAdd(c, <<-Trunc(c), 1>>)
        IN  /\ WholeWritten = Trunc(c)
            /\ SumCounts(file.writes, {"tail"})
                  = RoundRat(RMul(<<abuf.sampleCount, 1>>, rest))

\* C13: for a chunk of at least one sample and a duration that is not
\* negative, the samples main writes, whole chunks and tail together, are
\* within 1 of round(R * D), also when the chunk is longer than R * D.
C13_TotalWithinOne ==
    Tiled =>
        Abs(SumCounts(file.writes, {"chunk", "tail"})
               - RoundRat(maxSamples(params))) <= 1

\* C13 (case reached): the chunk is longer than the requested duration, no
\* whole chunk was written and the tail is the whole output
C13_ChunkLongerThanDuration ==
    /\ pc = "done"
    /\ RLess(maxSamples(params), <<abuf.sampleCount, 1>>)
    /\ WholeWritten = 0
    /\ SumCounts(file.writes, {"tail"}) > 1

\* C14: the pseudo-random generator is seeded exactly once, at the start of
\* the process: when applyDither has drawn from rand(), one call of srand()
\* has been made, and at no time more than one.
C14_SeededOnceBeforeDraws ==
    /\ seeds <= 1
    /\ randDraws > 0 => seeds = 1

---------------------------------------------------------------------------
(* Properties of parametersParse *)

\* C15: whatever config.cfg holds, the Parameters that parametersParse
\* returns have a sampleRate above twice the highest tone.
C15_NyquistEnforced ==
    pc # "parse" =>
        params.sampleRate * FreqDen > 2 * SeqMax(params.freqs, 0)

\* C16: whatever config.cfg holds, the Parameters that parametersParse
\* returns have an integer format with 8, 16, 24 or 32 bits or a float
\* format with 32 or 64 bits.
C16_BitsFitFormat ==
    pc # "parse" => Supported(params)

\* C17: for every Parameters value parametersParse can return, the chunk
\* length waveChunkGenerate computes is a positive integer: the chunk has at
\* least one sample and main never divides by a sampleCount of 0.
C17_ChunkLengthPositive ==
    /\ pc \in AfterSizing \cup {"open", "header", "tile", "tileByZero",
                                "close", "done"}
          => Trunc(sampleCount) >= 1
    /\ pc # "tileByZero"

---------------------------------------------------------------------------
(* Properties of the failure paths *)

\* C18: when calloc in waveChunkGenerate or malloc in audioBufferBuild
\* returns NULL, the FATAL message is logged and the process has exited with
\* EXIT_FAILURE; from then on no element of the chunk or of the encoded
\* buffer is read or written and the output file is neither opened nor
\* written.
C18_AllocationFailureTerminal ==
    /\ [](fatal = "memory" =>
             /\ pc = "exited"
             /\ exitCode = EXIT_FAILURE
             /\ ~file.opened
             /\ file.writes = <<>>
             /\ out = <<>>)
    /\ [][fatal = "memory" =>
             UNCHANGED <<chunk, noise, out, oob, randDraws, file>>]_vars

\* C18 (case reached): malloc failed after the chunk was synthesized, and
\* calloc can fail too
C18_MallocFailed ==
    /\ pc = "exited"
    /\ fatal = "memory"
    /\ exitCode = EXIT_FAILURE
    /\ Len(chunk) > 0
    /\ abuf.sampleCount = Len(chunk)

---------------------------------------------------------------------------
(* Properties of the harmonic series *)

\* the harmonic indices of one tone (above 0 Hz) of a shape: those of the
\* shape's series whose frequency f * k is below rate / 2; no k beyond
\* rate / (2 f) is
Harmonics(type, freq, rate) ==
    { k \in 1..((rate * FreqDen) \div (2 * freq)) :
        /\ 2 * freq * k < rate * FreqDen
        /\ CASE type = WAVE_TRIANGLE -> k % 2 = 1
             [] type = WAVE_SQUARE -> k % 2 = 1
             [] type = WAVE_SAW -> TRUE
             [] type = WAVE_EVEN -> k = 1 \/ k % 2 = 0
             [] OTHER -> FALSE }

\* harmonic k of a shape at sample i: its amplitude and sign times the sine
Harmonic(type, freq, rate, k, i) ==
    LET s == SINE_WAVE(freq, k, rate, i)
    IN  CASE type = WAVE_TRIANGLE ->
                (IF k % 4 = 1 THEN 1 ELSE -1) * RoundDiv(s, k * k)
          [] type = WAVE_SQUARE -> RoundDiv(4 * 113 * s, 355 * k)
          [] OTHER -> RoundDiv(s, k)

RECURSIVE Series(_, _, _, _, _)
Series(type, freq, rate, ks, i) ==
    IF ks = {} THEN 0
    ELSE LET k == CHOOSE x \in ks : TRUE
         IN  Harmonic(type, freq, rate, k, i)
                + Series(type, freq, rate, ks \ {k}, i)

\* C19: a sine tone is the single harmonic k = 1; a triangle sums the odd
\* k with amplitude 1/k^2 and the sign + at 1, - at 3, alternating; a square
\* the odd k with amplitude 4/(k PI); a saw every k with amplitude 1/k; an
\* even wave k = 1 and then 2, 4, 6, ... with amplitude 1/k.  Each series
\* holds every index with f * k < rate / 2 of its shape, each exactly once.
C19_HarmonicSeries ==
    (pc = "synth" /\ tone >= 1) =>
        LET type == params.waveType
            rate == params.sampleRate
        IN  /\ \A t \in 1..tone :
                 LET freq == params.freqs[t]
                     ks == IF type = WAVE_SINE THEN {1}
                           ELSE Harmonics(type, freq, rate)
                 IN  /\ { q[2] : q \in { r \in partials : r[1] = freq } } = ks
                     /\ Len(Factors(type, freq, rate)) = Cardinality(ks)
            /\ tone = 1 =>
                 \A n \in 1..Len(chunk) :
                    chunk[n] =
                       IF type = WAVE_SINE
                       THEN SINE_WAVE(params.freqs[1], 1, rate, n - 1)
                       ELSE Series(type, params.freqs[1], rate,
                                   Harmonics(type, params.freqs[1], rate),
                                   n - 1)

\* C19 (case reached): a triangle tone with at least two harmonics has been
\* added to a chunk, and some sample of it is not zero
C19_TriangleSummed ==
    /\ pc = "synth"
    /\ tone = 1
    /\ params.waveType = WAVE_TRIANGLE
    /\ Cardinality(Harmonics(WAVE_TRIANGLE, params.freqs[1],
                             params.sampleRate)) >= 2
    /\ \E n \in 1..Len(chunk) : chunk[n] # 0

---------------------------------------------------------------------------
(* Properties of the dithered chunk's length *)

\* C20: with the dither flag set, the chunk length waveChunkGenerate settles
\* on is at least sampleRate samples (one second) whatever the lowest tone,
\* the rate and the duration are, and the chunk it allocates is that long.
C20_DitheredChunkOneSecond ==
    (pc \in AfterSizing \ {"crashed", "hung"} /\ params.applyDither) =>
        /\ Trunc(sampleCount) >= params.sampleRate
        /\ pc # "alloc" => Len(chunk) >= params.sampleRate

\* C20 (case reached): the requested duration is shorter than one second,
\* the first loop stopped below sampleRate, and the chunk was allocated
C20_ExtendedPastDuration ==
    /\ pc = "synth"
    /\ params.applyDither
    /\ RLess(maxSamples(params), <<params.sampleRate, 1>>)
    /\ RLess(baseSampleCount(params), <<params.sampleRate, 1>>)
    /\ ~IsIntegral(baseSampleCount(params))
    /\ Len(chunk) >= params.sampleRate

---------------------------------------------------------------------------
(* Properties of the dither extension *)

\* the length the first sizing loop ends with: the first multiple of base
\* that is integral or at the duration bound
FirstLoopLength(p) ==
    LET base == baseSampleCount(p)
        k == CHOOSE j \in 1..base[2] :
                /\ SizingStops(p, j)
                /\ \A i \in 1..(j - 1) : ~SizingStops(p, i)
    IN  RMul(<<k, 1>>, base)

\* C21: when the first sizing loop ended on an integral sample count, the
\* length the dither extension leaves is integral again: the chunk still
\* holds a whole number of periods of the lowest tone and the truncation to
\* an integer drops nothing.
C21_ExtensionStaysIntegral ==
    (/\ pc \in AfterSizing \ {"crashed", "hung"}
     /\ params.applyDither
     /\ IsIntegral(FirstLoopLength(params))) =>
        /\ IsIntegral(sampleCount)
        /\ (Trunc(sampleCount) * lowestFreq(params))
              % (params.sampleRate * FreqDen) = 0

---------------------------------------------------------------------------
(* Properties of the order of the stages *)

\* the stage a position of the run belongs to: 1 period sizing, 2 synthesis,
\* 3 peak scan and normalization, 4 dither, 5 encoding, 6 what follows
Stage(p) ==
    CASE p = "parse" -> 0
      [] p \in {"size", "sizeLoop", "extendLoop", "alloc"} -> 1
      [] p = "synth" -> 2
      [] p = "peak" -> 3
      [] p = "dither" -> 4
      [] p = "encode" -> 5
      [] OTHER -> 6

\* C22: a run goes through period sizing, synthesis of all tones, peak scan
\* and normalization, dither and encoding in that order, entering no stage a
\* second time and skipping none; the chunk length changes only while
\* sizing, normalization starts only once the last tone is added, the dither
\* noise is drawn after normalization and before any sample is rounded, and
\* the encoded bytes are written only from the encoding stage on.
C22_PipelineOrder ==
    [][ /\ Stage(pc') >= Stage(pc)
        /\ Stage(pc') <= Stage(pc) + 1 \/ pc' \in {"cut", "exited"}
        /\ sampleCount' # sampleCount => Stage(pc) \in {0, 1}
        /\ tone' # tone => pc \in {"alloc", "synth"}
        /\ chunk' # chunk => pc \in {"alloc", "synth", "peak"}
        /\ pc = "peak" => tone = Len(params.freqs)
        /\ noise' # noise => pc = "dither" /\ out = <<>>
        /\ out' # out => Stage(pc) >= 5 ]_vars

\* C22 (case reached): a chunk of two tones went through every stage, the
\* dither included
C22_AllStagesRun ==
    /\ pc = "built"
    /\ Len(params.freqs) >= 2
    /\ tone = Len(params.freqs)
    /\ rawPeak > 0
    /\ dithered
    /\ Len(out) > 0

---------------------------------------------------------------------------
(* Properties of the ownership of the sample buffers *)

\* the positions of main between the return of audioBufferBuild and
\* audioBufferDestroy
BuiltNotDestroyed ==
    {"built", "open", "header", "tile", "tileByZero", "close"}

\* C23: once audioBufferBuild has returned exactly one sample buffer is
\* live: for 64 bits it is the WaveChunk storage, returned as it is and not
\* freed; for any other depth it is the buffer malloc gave, and the WaveChunk
\* storage is freed.  No buffer is freed twice or used after its free, and
\* after audioBufferDestroy no buffer is live and none was freed twice.
C23_OneLiveBuffer ==
    /\ heap.faults = {}
    /\ pc \in BuiltNotDestroyed =>
          IF params.bitsPerSample = 64
          THEN heap.src = "live" /\ heap.dst = "none"
          ELSE heap.src = "freed" /\ heap.dst = "live"
    /\ pc = "done" =>
          /\ heap.src = "freed"
          /\ heap.dst = (IF params.bitsPerSample = 64 THEN "none" ELSE "freed")

\* C23 (case reached): a run that returned the WaveChunk storage itself
\* wrote it to the file and freed it in audioBufferDestroy
C23_SourceReturnedAndFreed ==
    /\ pc = "done"
    /\ params.bitsPerSample = 64
    /\ heap.src = "freed"
    /\ heap.dst = "none"
    /\ Len(file.writes) >= 2

---------------------------------------------------------------------------
(* Properties of the output file *)

\* where a write stands in the file's layout
WriteRank(w) ==
    CASE w.what = "header" -> 0
      [] w.what = "chunk" -> 1
      [] w.what = "tail" -> 2

Count(ws, what) == Len(SelectSeq(ws, LAMBDA w : w.what = what))

\* C24: main writes the header first and exactly once, then the complete
\* encoded buffer (size_t)chunks times, then, only if chunks has a
\* fractional part, leading samples of the buffer once as the tail, and
\* nothing after the tail: every data write follows the header; writes go
\* to the opened file only.
C24_WriteOrder ==
    LET ws == file.writes
    IN  /\ ws # <<>> => file.opened /\ ws[1] = Write("header", 1)
        /\ \A i \in 1..Len(ws) : \A j \in (i + 1)..Len(ws) :
              /\ WriteRank(ws[i]) <= WriteRank(ws[j])
              /\ WriteRank(ws[i]) # 1 => WriteRank(ws[i]) < WriteRank(ws[j])
        /\ \A i \in 1..Len(ws) :
              /\ ws[i].what = "chunk" => ws[i].count = abuf.sampleCount
              /\ ws[i].what = "tail" => ws[i].count <= abuf.sampleCount
        /\ Tiled =>
              LET c == chunks(params, abuf)
              IN  /\ Count(ws, "header") = 1
                  /\ Count(ws, "chunk") = Trunc(c)
                  /\ Count(ws, "tail") = (IF IsIntegral(c) THEN 0 ELSE 1)

\* C24 (case reached): a run wrote the header, more than one whole chunk
\* and a tail of at least one sample, and ended
C24_HeaderChunksTail ==
    /\ pc = "done"
    /\ Count(file.writes, "chunk") >= 2
    /\ Count(file.writes, "tail") = 1
    /\ file.writes[Len(file.writes)].count >= 1

---------------------------------------------------------------------------
(* Properties of the chunk's bounds *)

\* the indices i a loop `for (i = from; i < sampleCount; i++)` goes
\* through, i a size_t and sampleCount the double
LoopIndices(from, sc) == { i \in from..Trunc(sc) : RLess(<<i, 1>>, sc) }

\* C25: every index at which waveChunkGenerate reads or writes the chunk,
\* in addWave, in the peak scan (buf[0] and the loop from 1) and in the
\* division loop, is below the number of elements calloc gave, whether the
\* sizing result is integral or not.
C25_ChunkAccessInBounds ==
    /\ ~oob
    /\ pc \in AfterSizing \ {"alloc", "synth", "peak"} =>
          \A i \in {0} \cup LoopIndices(0, sampleCount) : i < Len(chunk)

---------------------------------------------------------------------------
(* Properties of the header *)

\* C26: the data size the header declares is the number of data bytes main
\* writes after it, (whole chunks * chunk length + tail samples) *
\* bytesPerSample, it is a whole multiple of blockAlign, and chunkSize is 36
\* more.
C26_HeaderMatchesData ==
    Tiled =>
        LET h == file.header
        IN  /\ h.subChunk2Size =
                  SumCounts(file.writes, {"chunk", "tail"})
                     * abuf.bytesPerSample
            /\ h.chunkSize = 36 + h.subChunk2Size
            /\ h.blockAlign > 0 => h.subChunk2Size % h.blockAlign = 0

---------------------------------------------------------------------------
(* Properties of a config line that fails *)

\* C27: when the parse function of a config line logs an error for the
\* line's text (a number that cannot be read, an unrecognized wave type or
\* sample format, an invalid boolean), the line leaves every field of the
\* Parameters as it was; the waveType is one of the five shapes at all
\* times.
C27_FailedLineChangesNothing ==
    /\ [](params.waveType \in {WAVE_SINE, WAVE_TRIANGLE, WAVE_SQUARE,
                               WAVE_SAW, WAVE_EVEN})
    /\ [][ (/\ pc = "parse"
            /\ cfg # NoFile
            /\ line < LINE_COUNT
            /\ cfg[line + 1].eq
            /\ LogsParseError(line, cfg[line + 1].txt)) =>
               params' = params ]_vars

---------------------------------------------------------------------------
(* Properties of the output file's handle *)

\* C28: when the output file cannot be opened main logs the FATAL message
\* and exits with EXIT_FAILURE, the file neither opened nor written, and on
\* no path through main is a call (fclose, fwrite) made on a NULL FILE
\* pointer.
C28_OpenFailureHandled ==
    /\ fatal = "file" =>
          /\ pc = "exited"
          /\ exitCode = EXIT_FAILURE
          /\ ~file.opened
          /\ file.writes = <<>>
    /\ file.nullOps = 0

=============================================================================
